---- MODULE Spec2Model ----
(***************************************************************************)
(* Model of the three document-layout generators (Model1: persons that     *)
(* reference companies, Model2: persons with an embedded company, Model3:  *)
(* companies with an embedded list of persons) and of the menu loop that   *)
(* starts them.  One run of data_generator is a sequential program; pc is  *)
(* its position.  The document store is the sequence `collection`, in      *)
(* insertion order.                                                        *)
(*                                                                         *)
(* Documents keep the fields the queries read or write (type, name, age,   *)
(* dateOfBirth, fullName, company_id / company / employees, _id) and one   *)
(* field no query touches (domain); the other provider fields (email,      *)
(* url, vatNumber, firstName, sex, companyEmail) are carried like domain.  *)
(***************************************************************************)
EXTENDS Integers, Sequences, FiniteSets, Bags, TLC

\* ---------------------------------------------------------------- bounds
MaxPeople == 3
MaxCompanies == 2
MaxBatch == 2
MaxRuns == 2
DistMaxPeople == 7
DistMaxCompanies == 4

\* Values the fake-value provider and the clock can deliver.
CompanyNames == {"Acme", "Bolt"}
FullNames == {"Ann"}
DobValues == {<<1987, 12, 31>>, <<1988, 1, 1>>}
Clock == << <<2025, 12, 31>>, <<2026, 1, 1>> >>
Domain == "example.org"

\* ------------------------------------------------------------- constants
cutoff == <<1988, 1, 1>>
Q3Age == 30
Q4Suffix == " Company"

VARIABLES
    pc,                     \* position of the program
    op,                     \* menu option = variant (1, 2, 3)
    n_people, n_companies, batch_size,
    companies,              \* Model1/Model2: the list built by the first loop
    company_ids,            \* Model1: result.inserted_ids
    employees_per_company, extra_employees,
    i,                      \* outer-loop iterations started
    num_employees,          \* of the current outer iteration
    k,                      \* inner-loop iterations done
    company,                \* Model3: the company being built (<<>> or <<doc>>)
    buffer, inserted_total,
    collection,             \* the store: lab2_big_data
    nextId,                 \* next identifier the store generates in this run
    now,                    \* index into Clock of the current time
    error,                  \* the exception that ended the run, or "none"
    q1Result, q2Result,     \* result lists of Q1 and Q2 (<<>> before they ran)
    queryLog,               \* the queries started, in order: [name, ok]
    run,                    \* number of data_generator calls started
    \* history (not program state): what the run built and sent
    counts,                 \* num_employees of every outer iteration, in order
    genCompanies,           \* company names in generation order
    genPersons,             \* persons built: [fullName, dateOfBirth, age, c]
    insertCalls,            \* insert_many calls: [kind, n, stored, ok]
    loaded                  \* the collection as the load phase left it

vars == <<pc, op, n_people, n_companies, batch_size, companies, company_ids,
          employees_per_company, extra_employees, i, num_employees, k, company,
          buffer, inserted_total, collection, nextId, now, error, q1Result,
          q2Result, queryLog, run, counts, genCompanies, genPersons, insertCalls,
          loaded>>

params == <<op, n_people, n_companies, batch_size>>
loopVars == <<i, num_employees, k>>
distVars == <<employees_per_company, extra_employees>>
results == <<q1Result, q2Result, queryLog>>
history == <<counts, genCompanies, genPersons, insertCalls, loaded>>

\* ---------------------------------------------------------------- helpers
RECURSIVE SumSeq(_)
SumSeq(s) == IF s = <<>> THEN 0 ELSE Head(s) + SumSeq(Tail(s))

RECURSIVE Flatten(_)
Flatten(ss) == IF ss = <<>> THEN <<>> ELSE Head(ss) \o Flatten(Tail(ss))

MapSeq(F(_), s) == [x \in 1..Len(s) |-> F(s[x])]

Has(d, f) == f \in DOMAIN d

\* Tuple comparison, as Python compares tuples and datetimes.
DateLT(a, b) ==
    \/ a[1] < b[1]
    \/ a[1] = b[1] /\ a[2] < b[2]
    \/ a[1] = b[1] /\ a[2] = b[2] /\ a[3] < b[3]

MonthDayLT(m, d, dob) == m < dob[2] \/ (m = dob[2] /\ d < dob[3])

\* ------------------------------------------------------------ distribution
FloorDiv(a, b) == a \div b
Modulo(a, b) == a % b

NumEmployeesExtraLE(idx, base, extra) == base + (IF idx <= extra THEN 1 ELSE 0)
\* num_employees = employees_per_company + (1 if i < extra_employees else 0)
NumEmployees(idx, base, extra) == base + (IF idx < extra THEN 1 ELSE 0)

\* ------------------------------------------------------------------- age
\* age = now().year - dob.year - ((now().month, now().day) < (dob.month, dob.day))
\* with the three clock reads t1, t2, t3 taken in that order.
Age(t1, t2, t3, dob) ==
    Clock[t1][1] - dob[1]
        - (IF MonthDayLT(Clock[t2][2], Clock[t3][3], dob) THEN 1 ELSE 0)

\* ------------------------------------------------------------- the store
\* insert_many gives every document an _id the collection has not seen.
WithIds(docs, r, first) ==
    [x \in 1..Len(docs) |-> docs[x] @@ ("_id" :> <<r, first + x - 1>>)]

InsertedIdsShifted(r, first, n) == [x \in 1..n |-> <<r, first + x>>]
\* result.inserted_ids: the identifiers insert_many gave, in document order
InsertedIds(r, first, n) == [x \in 1..n |-> <<r, first + x - 1>>]

\* ------------------------------------------------------------------ Init
Init ==
    /\ pc = "menu"
    /\ op = 0 /\ n_people = 0 /\ n_companies = 0 /\ batch_size = 1
    /\ companies = <<>> /\ company_ids = <<>>
    /\ employees_per_company = 0 /\ extra_employees = 0
    /\ i = 0 /\ num_employees = 0 /\ k = 0
    /\ company = <<>>
    /\ buffer = <<>> /\ inserted_total = 0
    /\ collection = <<>>
    /\ nextId = 1
    /\ now = 1
    /\ error = "none"
    /\ q1Result = <<>> /\ q2Result = <<>> /\ queryLog = <<>>
    /\ run = 0
    /\ counts = <<>> /\ genCompanies = <<>> /\ genPersons = <<>>
    /\ insertCalls = <<>> /\ loaded = <<>>

\* ------------------------------------------------------------ the actions
StartRunNoDrop ==
    /\ pc = "menu"
    /\ run < MaxRuns
    /\ \E o \in 1..3, np \in 0..MaxPeople, nc \in 0..MaxCompanies, bs \in 1..MaxBatch :
        /\ op' = o /\ n_people' = np /\ n_companies' = nc /\ batch_size' = bs
        /\ pc' = IF o = 3 THEN "distribute" ELSE "companies"
    /\ run' = run + 1
    /\ collection' = collection
    /\ nextId' = 1
    /\ companies' = <<>> /\ company_ids' = <<>>
    /\ employees_per_company' = 0 /\ extra_employees' = 0
    /\ i' = 0 /\ num_employees' = 0 /\ k' = 0
    /\ company' = <<>>
    /\ buffer' = <<>> /\ inserted_total' = 0
    /\ error' = "none"
    /\ q1Result' = <<>> /\ q2Result' = <<>> /\ queryLog' = <<>>
    /\ counts' = <<>> /\ genCompanies' = <<>> /\ genPersons' = <<>>
    /\ insertCalls' = <<>> /\ loaded' = <<>>
    /\ UNCHANGED now

\* Menu loop: an option 1..3 and the two prompts start data_generator, which
\* drops and recreates the collection first.  batch_size is data_generator's
\* own parameter: the menu leaves it at its default, other callers set it.
StartRun ==
    /\ pc = "menu"
    /\ run < MaxRuns
    /\ \E o \in 1..3, np \in 0..MaxPeople, nc \in 0..MaxCompanies, bs \in 1..MaxBatch :
        /\ op' = o /\ n_people' = np /\ n_companies' = nc /\ batch_size' = bs
        /\ pc' = IF o = 3 THEN "distribute" ELSE "companies"
    /\ run' = run + 1
    /\ collection' = <<>>
    /\ nextId' = 1
    /\ companies' = <<>> /\ company_ids' = <<>>
    /\ employees_per_company' = 0 /\ extra_employees' = 0
    /\ i' = 0 /\ num_employees' = 0 /\ k' = 0
    /\ company' = <<>>
    /\ buffer' = <<>> /\ inserted_total' = 0
    /\ error' = "none"
    /\ q1Result' = <<>> /\ q2Result' = <<>> /\ queryLog' = <<>>
    /\ counts' = <<>> /\ genCompanies' = <<>> /\ genPersons' = <<>>
    /\ insertCalls' = <<>> /\ loaded' = <<>>
    /\ UNCHANGED now

\* The menu loop ends on option 0 (any option outside 0..3 exits as well).
ExitMenu ==
    /\ pc = "menu"
    /\ pc' = "exited"
    /\ UNCHANGED <<params, companies, company_ids, distVars, loopVars, company,
                   buffer, inserted_total, collection, nextId, now, error,
                   results, run, history>>

\* One insert_many(docs) call whose first p documents the store accepts:
\* p = Len(docs) is the call that succeeds, p < Len(docs) the ordered bulk
\* write the store rejects at document p+1.
InsertMany(docs, kind, p) ==
    /\ collection' = collection \o WithIds(SubSeq(docs, 1, p), run, nextId)
    /\ nextId' = nextId + p
    /\ insertCalls' = Append(insertCalls,
            [kind |-> kind, n |-> Len(docs), stored |-> p, ok |-> (p = Len(docs))])

RaiseAndContinue(e) ==
    /\ pc' = pc
    /\ error' = e
\* The exception leaves data_generator and the script: nothing runs after it.
Raise(e) ==
    /\ pc' = "crashed"
    /\ error' = e

\* Model1 lines 36-47, Model2 lines 38-47: one iteration of the company loop.
NewCompany(o, nm) ==
    IF o = 1 THEN [type |-> "company", domain |-> Domain, name |-> nm]
    ELSE [domain |-> Domain, name |-> nm]

GenCompany ==
    /\ pc = "companies"
    /\ Len(companies) < n_companies
    /\ \E nm \in CompanyNames :
        /\ companies' = Append(companies, NewCompany(op, nm))
        /\ genCompanies' = Append(genCompanies, nm)
    /\ UNCHANGED <<pc, params, company_ids, distVars, loopVars, company, buffer,
                   inserted_total, collection, nextId, now, error, results, run,
                   counts, genPersons, insertCalls, loaded>>

\* Model1 lines 50-52: all companies go to the store in one insert_many, which
\* refuses an empty list (TypeError: documents must be a non-empty list).
InsertCompanies ==
    /\ pc = "companies" /\ op = 1
    /\ Len(companies) = n_companies
    /\ IF companies = <<>>
         THEN /\ Raise("TypeError")
              /\ UNCHANGED <<company_ids, collection, nextId, insertCalls>>
         ELSE \E p \in 0..Len(companies) :
              /\ InsertMany(companies, "companies", p)
              /\ IF p = Len(companies)
                   THEN /\ company_ids' = InsertedIds(run, nextId, p)
                        /\ pc' = "distribute"
                        /\ UNCHANGED error
                   ELSE /\ Raise("WriteRejected")
                        /\ UNCHANGED company_ids
    /\ UNCHANGED <<params, companies, distVars, loopVars, company, buffer,
                   inserted_total, now, results, run, counts, genCompanies,
                   genPersons, loaded>>

\* Model2 line 49: the templates are only kept in memory.
PrepareCompanies ==
    /\ pc = "companies" /\ op = 2
    /\ Len(companies) = n_companies
    /\ pc' = "distribute"
    /\ UNCHANGED <<params, companies, company_ids, distVars, loopVars, company,
                   buffer, inserted_total, collection, nextId, now, error,
                   results, run, history>>

\* employees_per_company = n_people // n_companies; extra = n_people % n_companies
Distribute ==
    /\ pc = "distribute"
    /\ IF n_companies = 0
         THEN /\ Raise("ZeroDivisionError")
              /\ UNCHANGED <<distVars, buffer, inserted_total>>
         ELSE /\ employees_per_company' = FloorDiv(n_people, n_companies)
              /\ extra_employees' = Modulo(n_people, n_companies)
              /\ buffer' = <<>>
              /\ inserted_total' = 0
              /\ pc' = "persons"
              /\ UNCHANGED error
    /\ UNCHANGED <<params, companies, company_ids, loopVars, company, collection,
                   nextId, now, results, run, history>>

\* What the outer loop runs over: company_ids (Model1), companies (Model2),
\* range(n_companies) (Model3).
OuterLen ==
    CASE op = 1 -> Len(company_ids)
      [] op = 2 -> Len(companies)
      [] OTHER -> n_companies

\* Model1 line 63-65, Model2 lines 59-61: the head of an outer iteration.
ForCompany ==
    /\ pc = "persons" /\ op \in {1, 2}
    /\ k = num_employees
    /\ i < OuterLen
    /\ i' = i + 1
    /\ num_employees' = NumEmployees(i, employees_per_company, extra_employees)
    /\ k' = 0
    /\ counts' = Append(counts, num_employees')
    /\ UNCHANGED <<pc, params, companies, company_ids, distVars, company, buffer,
                   inserted_total, collection, nextId, now, error, results, run,
                   genCompanies, genPersons, insertCalls, loaded>>

\* The person of Model1 lines 73-83, Model2 lines 68-78, Model3 lines 66-74.
NewPerson(o, age, dob, fn, cid, comp) ==
    CASE o = 1 -> [type |-> "person", age |-> age, dateOfBirth |-> dob,
                   fullName |-> fn, company_id |-> cid]
      [] o = 2 -> [type |-> "person", age |-> age, dateOfBirth |-> dob,
                   fullName |-> fn, company |-> comp]
      [] OTHER -> [age |-> age, dateOfBirth |-> dob, fullName |-> fn]

ShouldFlushGT(buf, bs) == Len(buf) > bs
\* if len(buffer) >= batch_size
ShouldFlush(buf, bs) == Len(buf) >= bs

\* buffer.clear()
BufferAfterFlush(buf) == <<>>

\* Append to the buffer, then flush it when it has reached batch_size.
\* tFlushed: inserted_total after a flush that succeeded; tElse: otherwise.
AppendAndFlush(doc, tFlushed, tElse) ==
    LET buf == Append(buffer, doc) IN
    IF ShouldFlush(buf, batch_size)
      THEN \E p \in 0..Len(buf) :
             /\ InsertMany(buf, "batch", p)
             /\ IF p = Len(buf)
                  THEN /\ inserted_total' = tFlushed
                       /\ buffer' = BufferAfterFlush(buf)
                       /\ UNCHANGED <<pc, error>>
                  ELSE /\ Raise("WriteRejected")
                       /\ buffer' = buf
                       /\ inserted_total' = tElse
      ELSE /\ buffer' = buf
           /\ inserted_total' = tElse
           /\ UNCHANGED <<pc, error, collection, nextId, insertCalls>>

\* Model1 lines 66-91, Model2 lines 62-86: one inner iteration.
GenPerson ==
    /\ pc = "persons" /\ op \in {1, 2}
    /\ i >= 1 /\ k < num_employees
    /\ \E dob \in DobValues, fn \in FullNames, t1 \in now..Len(Clock) :
       \E t2 \in t1..Len(Clock) : \E t3 \in t2..Len(Clock) :
        LET age == Age(t1, t2, t3, dob)
            cid == IF op = 1 THEN company_ids[i] ELSE <<>>
            comp == IF op = 2 THEN companies[i] ELSE <<>>
        IN /\ now' = t3
           /\ genPersons' = Append(genPersons,
                 [fullName |-> fn, dateOfBirth |-> dob, age |-> age, c |-> i])
           /\ AppendAndFlush(NewPerson(op, age, dob, fn, cid, comp),
                             inserted_total + Len(buffer) + 1, inserted_total)
    /\ k' = k + 1
    /\ UNCHANGED <<params, companies, company_ids, distVars, i, num_employees,
                   company, results, run, counts, genCompanies, loaded>>

\* Model3 lines 44-57: the head of an outer iteration creates the company.
ForCompany3 ==
    /\ pc = "persons" /\ op = 3
    /\ company = <<>>
    /\ i < OuterLen
    /\ i' = i + 1
    /\ num_employees' = NumEmployees(i, employees_per_company, extra_employees)
    /\ k' = 0
    /\ counts' = Append(counts, num_employees')
    /\ \E nm \in CompanyNames :
        /\ company' = << [type |-> "company", domain |-> Domain, name |-> nm,
                          employees |-> <<>>] >>
        /\ genCompanies' = Append(genCompanies, nm)
    /\ UNCHANGED <<pc, params, companies, company_ids, distVars, buffer,
                   inserted_total, collection, nextId, now, error, results, run,
                   genPersons, insertCalls, loaded>>

\* Model3 lines 60-75: one inner iteration embeds a person in the company.
GenPerson3 ==
    /\ pc = "persons" /\ op = 3
    /\ company # <<>> /\ k < num_employees
    /\ \E dob \in DobValues, fn \in FullNames, t1 \in now..Len(Clock) :
       \E t2 \in t1..Len(Clock) : \E t3 \in t2..Len(Clock) :
        LET age == Age(t1, t2, t3, dob) IN
           /\ now' = t3
           /\ genPersons' = Append(genPersons,
                 [fullName |-> fn, dateOfBirth |-> dob, age |-> age, c |-> i])
           /\ company' = << [company[1] EXCEPT !.employees =
                 Append(@, NewPerson(op, age, dob, fn, <<>>, <<>>))] >>
    /\ k' = k + 1
    /\ UNCHANGED <<pc, params, companies, company_ids, distVars, i, num_employees,
                   buffer, inserted_total, collection, nextId, error, results,
                   run, counts, genCompanies, insertCalls, loaded>>

\* Model3 lines 77-84: the company joins the buffer; flush at batch_size.
EndCompany3 ==
    /\ pc = "persons" /\ op = 3
    /\ company # <<>> /\ k = num_employees
    /\ AppendAndFlush(company[1], inserted_total + num_employees,
                      inserted_total + num_employees)
    /\ company' = <<>>
    /\ UNCHANGED <<params, companies, company_ids, distVars, loopVars, now,
                   results, run, counts, genCompanies, genPersons, loaded>>

FinalFlushSkip(buf) == FALSE
\* if buffer:
FinalFlushNeeded(buf) == buf # <<>>

\* Model1 lines 94-97, Model2 lines 88-91, Model3 lines 86-88: after the loop
\* whatever is left in the buffer is inserted; the load phase is over.
FinalFlush ==
    /\ pc = "persons"
    /\ i = OuterLen /\ k = num_employees /\ company = <<>>
    /\ IF FinalFlushNeeded(buffer)
         THEN \E p \in 0..Len(buffer) :
              /\ InsertMany(buffer, "batch", p)
              /\ IF p = Len(buffer)
                   THEN /\ inserted_total' =
                              IF op = 3 THEN inserted_total
                              ELSE inserted_total + Len(buffer)
                        /\ pc' = "q1"
                        /\ loaded' = collection'
                        /\ UNCHANGED error
                   ELSE /\ Raise("WriteRejected")
                        /\ UNCHANGED <<inserted_total, loaded>>
         ELSE /\ pc' = "q1"
              /\ loaded' = collection
              /\ UNCHANGED <<inserted_total, collection, nextId, insertCalls, error>>
    /\ UNCHANGED <<params, companies, company_ids, distVars, loopVars, company,
                   buffer, now, results, run, counts, genCompanies, genPersons>>

\* ------------------------------------------------------------ the queries
\* { "type": v }
MatchType(coll, v) == SelectSeq(coll, LAMBDA d : Has(d, "type") /\ d.type = v)

\* The value $lookup compares: a missing field counts as null (<<>>).
KeyOf(d, f) == IF Has(d, f) THEN d[f] ELSE <<>>

\* $lookup from the same collection: the documents whose foreignField equals key.
Lookup(coll, key, foreignField) ==
    SelectSeq(coll, LAMBDA d : KeyOf(d, foreignField) = key)

\* Q1, Model1 lines 110-126: $match person, $lookup company_id -> _id,
\* $unwind (one row per joined company), $project.
Q1Model1(coll) ==
    Flatten(MapSeq(
        LAMBDA p : MapSeq(LAMBDA c : <<p.fullName, c.name>>,
                          Lookup(coll, KeyOf(p, "company_id"), "_id")),
        MatchType(coll, "person")))

\* Q1, Model2 lines 104-107: find persons, project fullName and company.name.
Q1Model2(coll) ==
    MapSeq(LAMBDA d : <<d.fullName, d.company.name>>, MatchType(coll, "person"))

Q1Model3KeepEmpty(coll) ==
    Flatten(MapSeq(
        LAMBDA c : IF c.employees = <<>> THEN << <<"", c.name>> >>
                   ELSE MapSeq(LAMBDA e : <<e.fullName, c.name>>, c.employees),
        coll))
\* Q1, Model3 lines 101-108: $unwind employees (a company with an empty list
\* yields no row), $project.
Q1Model3(coll) ==
    Flatten(MapSeq(
        LAMBDA c : MapSeq(LAMBDA e : <<e.fullName, c.name>>, c.employees),
        coll))

Q1Rows(o, coll) ==
    CASE o = 1 -> Q1Model1(coll)
      [] o = 2 -> Q1Model2(coll)
      [] OTHER -> Q1Model3(coll)

QueryEndsContinue(name, ok, nextpc) ==
    /\ queryLog' = Append(queryLog, [name |-> name, ok |-> ok])
    /\ pc' = nextpc
    /\ error' = IF ok THEN error ELSE "OperationFailure"
\* A query starts: it is logged with its outcome.  No query is inside a try
\* block, so a store error (pymongo's OperationFailure) raised by any call of
\* the query leaves data_generator like any other exception.
QueryEnds(name, ok, nextpc) ==
    /\ queryLog' = Append(queryLog, [name |-> name, ok |-> ok])
    /\ IF ok THEN pc' = nextpc /\ UNCHANGED error
             ELSE Raise("OperationFailure")

\* An update that fails may have reached the first m documents of the
\* collection: updated is what the whole update would have left.
PartlyUpdated(updated, coll, m) ==
    SubSeq(updated, 1, m) \o SubSeq(coll, m + 1, Len(coll))

Q1 ==
    /\ pc = "q1"
    /\ \/ /\ q1Result' = Q1Rows(op, collection)
          /\ QueryEnds("Q1", TRUE, "q2")
       \/ /\ QueryEnds("Q1", FALSE, "q2")
          /\ UNCHANGED q1Result
    /\ UNCHANGED <<params, companies, company_ids, distVars, loopVars, company,
                   buffer, inserted_total, collection, nextId, now,
                   q2Result, run, history>>

\* Q2, Model1 lines 135-152: $match company, $lookup _id -> company_id, $size.
Q2Model1(coll) ==
    MapSeq(LAMBDA c : <<c.name, Len(Lookup(coll, KeyOf(c, "_id"), "company_id"))>>,
           MatchType(coll, "company"))

\* Q2, Model2 lines 120-131: $group persons by company.name, $sum 1.  The
\* groups come in no defined order: ord is the order the store returns.
GroupKeys(coll) == {d.company.name : d \in {coll[x] : x \in DOMAIN coll}}

Orderings(S) ==
    {ord \in [1..Cardinality(S) -> S] :
        \A x, y \in 1..Cardinality(S) : x # y => ord[x] # ord[y]}

Q2Model2(coll, ord) ==
    LET persons == MatchType(coll, "person") IN
    [x \in DOMAIN ord |->
        <<ord[x], Len(SelectSeq(persons, LAMBDA d : d.company.name = ord[x]))>>]

\* Q2, Model3 lines 130-133: find every document, project name and $size.
Q2Model3(coll) == MapSeq(LAMBDA c : <<c.name, Len(c.employees)>>, coll)

Q2 ==
    /\ pc = "q2"
    /\ \/ /\ CASE op = 1 -> q2Result' = Q2Model1(collection)
               [] op = 2 ->
                    \E ord \in Orderings(GroupKeys(MatchType(collection, "person"))) :
                        q2Result' = Q2Model2(collection, ord)
               [] OTHER -> q2Result' = Q2Model3(collection)
          /\ QueryEnds("Q2", TRUE, "q3")
       \/ /\ QueryEnds("Q2", FALSE, "q3")
          /\ UNCHANGED q2Result
    /\ UNCHANGED <<params, companies, company_ids, distVars, loopVars, company,
                   buffer, inserted_total, collection, nextId, now,
                   q1Result, run, history>>

BornBeforeLE(dob) == DateLT(dob, cutoff) \/ dob = cutoff
\* "dateOfBirth": { "$lt": cutoff }
BornBefore(dob) == DateLT(dob, cutoff)

\* Q3, Model1 lines 163-171, Model2 lines 142-148: update_many on persons.
Q3Flat(coll) ==
    MapSeq(LAMBDA d : IF Has(d, "type") /\ d.type = "person" /\ BornBefore(d.dateOfBirth)
                        THEN [d EXCEPT !.age = Q3Age] ELSE d,
           coll)

\* Q3, Model3 lines 149-167: every company with a matching employee is read,
\* its list rebuilt with the matching ages set, and written back by _id.
Q3Model3(coll) ==
    MapSeq(
        LAMBDA c :
            IF \E x \in DOMAIN c.employees : BornBefore(c.employees[x].dateOfBirth)
              THEN LET updated_employees ==
                         MapSeq(LAMBDA e : IF BornBefore(e.dateOfBirth)
                                             THEN [e EXCEPT !.age = Q3Age] ELSE e,
                                c.employees)
                       modified ==
                         \E x \in DOMAIN c.employees :
                             BornBefore(c.employees[x].dateOfBirth)
                   IN IF modified THEN [c EXCEPT !.employees = updated_employees]
                      ELSE c
              ELSE c,
        coll)

Q3Update(o, coll) == IF o = 3 THEN Q3Model3(coll) ELSE Q3Flat(coll)

Q3 ==
    /\ pc = "q3"
    /\ \/ /\ collection' = Q3Update(op, collection)
          /\ QueryEnds("Q3", TRUE, "q4")
       \/ \E m \in 0..Len(collection) :
          /\ collection' = PartlyUpdated(Q3Update(op, collection), collection, m)
          /\ QueryEnds("Q3", FALSE, "q4")
    /\ UNCHANGED <<params, companies, company_ids, distVars, loopVars, company,
                   buffer, inserted_total, nextId, now, q1Result, q2Result, run,
                   history>>

Q4ConcatSwapped(nm) == Q4Suffix \o nm
\* { "$concat": ["$name", " Company"] }
Q4Concat(nm) == nm \o Q4Suffix

\* Q4, Model1 lines 187-190: update_many on the company documents.
Q4Model1(coll) ==
    MapSeq(LAMBDA d : IF Has(d, "type") /\ d.type = "company"
                        THEN [d EXCEPT !.name = Q4Concat(@)] ELSE d,
           coll)

\* Q4, Model2 lines 164-167: update_many on the persons' embedded company.name.
Q4Model2(coll) ==
    MapSeq(LAMBDA d : IF Has(d, "type") /\ d.type = "person"
                        THEN [d EXCEPT !.company.name = Q4Concat(@)] ELSE d,
           coll)

\* Q4, Model3 lines 191-194: update_many on every document.
Q4Model3(coll) == MapSeq(LAMBDA d : [d EXCEPT !.name = Q4Concat(@)], coll)

Q4Update(o, coll) ==
    CASE o = 1 -> Q4Model1(coll)
      [] o = 2 -> Q4Model2(coll)
      [] OTHER -> Q4Model3(coll)

\* After Q4 data_generator returns to the menu loop.
Q4 ==
    /\ pc = "q4"
    /\ \/ /\ collection' = Q4Update(op, collection)
          /\ QueryEnds("Q4", TRUE, "menu")
       \/ \E m \in 0..Len(collection) :
          /\ collection' = PartlyUpdated(Q4Update(op, collection), collection, m)
          /\ QueryEnds("Q4", FALSE, "menu")
    /\ UNCHANGED <<params, companies, company_ids, distVars, loopVars, company,
                   buffer, inserted_total, nextId, now, q1Result, q2Result, run,
                   history>>

Next ==
    \/ StartRun
    \/ ExitMenu
    \/ GenCompany
    \/ InsertCompanies
    \/ PrepareCompanies
    \/ Distribute
    \/ ForCompany
    \/ GenPerson
    \/ ForCompany3
    \/ GenPerson3
    \/ EndCompany3
    \/ FinalFlush
    \/ Q1
    \/ Q2
    \/ Q3
    \/ Q4

Spec == Init /\ [][Next]_vars

\* ------------------------------------------- the distribution on its own
\* The distribution is a function of n_people and n_companies alone: this
\* specification runs the outer loop of Model3 (lines 37-46) over a wider
\* range of parameters, without building the persons.
InitDist ==
    /\ pc = "distribute"
    /\ op = 3
    /\ n_people \in 0..DistMaxPeople
    /\ n_companies \in 1..DistMaxCompanies
    /\ batch_size = 1
    /\ companies = <<>> /\ company_ids = <<>>
    /\ employees_per_company = 0 /\ extra_employees = 0
    /\ i = 0 /\ num_employees = 0 /\ k = 0
    /\ company = <<>>
    /\ buffer = <<>> /\ inserted_total = 0
    /\ collection = <<>>
    /\ nextId = 1
    /\ now = 1
    /\ error = "none"
    /\ q1Result = <<>> /\ q2Result = <<>> /\ queryLog = <<>>
    /\ run = 1
    /\ counts = <<>> /\ genCompanies = <<>> /\ genPersons = <<>>
    /\ insertCalls = <<>> /\ loaded = <<>>

DistLoop ==
    /\ pc = "persons"
    /\ i < n_companies
    /\ i' = i + 1
    /\ num_employees' = NumEmployees(i, employees_per_company, extra_employees)
    /\ counts' = Append(counts, num_employees')
    /\ UNCHANGED <<pc, params, companies, company_ids, distVars, k, company,
                   buffer, inserted_total, collection, nextId, now, error,
                   results, run, genCompanies, genPersons, insertCalls, loaded>>

NextDist ==
    \/ Distribute
    \/ DistLoop

SpecDist == InitDist /\ [][NextDist]_vars

\* ================================================================ claims
\* The outer loop has computed num_employees for every company.
LoopDone == pc \notin {"menu", "companies", "distribute", "crashed", "exited"}
                /\ Len(counts) = n_companies

\* C1: for n_people >= 0 and n_companies >= 1 the per-company counts form a
\* sequence of length n_companies of non-negative integers that sums to
\* n_people; the first (n_people mod n_companies) entries are
\* (n_people div n_companies)+1 and the others (n_people div n_companies), so
\* two entries differ by at most 1, and when n_people < n_companies the first
\* n_people entries are 1 and the others 0.
C1_EvenDistribution ==
    /\ \A x \in DOMAIN counts :
          /\ counts[x] >= 0
          /\ x <= n_people % n_companies => counts[x] = (n_people \div n_companies) + 1
          /\ x > n_people % n_companies => counts[x] = n_people \div n_companies
          /\ n_people < n_companies => counts[x] = (IF x <= n_people THEN 1 ELSE 0)
    /\ \A x, y \in DOMAIN counts :
          counts[x] - counts[y] <= 1 /\ counts[y] - counts[x] <= 1
    /\ LoopDone => Len(counts) = n_companies /\ SumSeq(counts) = n_people

\* A distribution with both a quotient and a remainder has been computed to
\* the end.
C1_Witness ==
    /\ LoopDone
    /\ n_people = 7 /\ n_companies = 3
    /\ counts = <<3, 2, 2>>

\* ------------------------------------------------- reading the store back
\* The persons a collection holds, in store order, each with the name of the
\* company it belongs to: [fullName, dateOfBirth, age, companyName].
PersonRow(fn, dob, age, cn) ==
    [fullName |-> fn, dateOfBirth |-> dob, age |-> age, companyName |-> cn]

OwnerName(coll, p) ==
    LET owners == SelectSeq(coll, LAMBDA d : d["_id"] = p.company_id) IN
    IF Len(owners) = 1 /\ Has(owners[1], "name") THEN owners[1].name ELSE "?"

StoredPersons(o, coll) ==
    CASE o = 1 ->
           MapSeq(LAMBDA p : PersonRow(p.fullName, p.dateOfBirth, p.age, OwnerName(coll, p)),
                  SelectSeq(coll, LAMBDA d : d.type = "person"))
      [] o = 2 ->
           MapSeq(LAMBDA p : PersonRow(p.fullName, p.dateOfBirth, p.age, p.company.name),
                  coll)
      [] OTHER ->
           Flatten(MapSeq(
               LAMBDA c : MapSeq(LAMBDA e : PersonRow(e.fullName, e.dateOfBirth, e.age, c.name),
                                 c.employees),
               coll))

\* The persons the run generated, in generation order, same shape.
GeneratedPersons ==
    MapSeq(LAMBDA g : PersonRow(g.fullName, g.dateOfBirth, g.age, genCompanies[g.c]),
           genPersons)

\* The documents the load loop queues: persons (Model1, Model2), companies (Model3).
QueuedDocs == IF op = 3 THEN n_companies ELSE n_people

BatchCalls == SelectSeq(insertCalls, LAMBDA c : c.kind = "batch")

DistinctIds(coll) ==
    \A x, y \in DOMAIN coll : x # y => coll[x]["_id"] # coll[y]["_id"]

\* C2: when the load phase completes without a store error, the buffer was
\* flushed each time it reached batch_size and once more for a non-empty
\* remainder (an empty remainder causes no insert call), every generated
\* document is in the collection exactly once, and the collection holds
\* n_people persons.
C2_LoadComplete ==
    pc = "q1" =>
        /\ Len(BatchCalls) = (QueuedDocs \div batch_size)
                                + (IF QueuedDocs % batch_size > 0 THEN 1 ELSE 0)
        /\ \A x \in DOMAIN BatchCalls :
              /\ BatchCalls[x].ok
              /\ BatchCalls[x].n > 0
              /\ BatchCalls[x].n = (IF x <= QueuedDocs \div batch_size THEN batch_size
                                    ELSE QueuedDocs % batch_size)
        /\ Len(collection) = QueuedDocs + (IF op = 1 THEN n_companies ELSE 0)
        /\ DistinctIds(collection)
        /\ StoredPersons(op, collection) = GeneratedPersons
        /\ Len(StoredPersons(op, collection)) = n_people
        /\ Len(genPersons) = n_people

\* A load of three persons with batch size two has ended: one full batch and
\* a remainder of one.
C2_Witness ==
    /\ pc = "q1" /\ op = 1
    /\ n_people = 3 /\ n_companies = 2 /\ batch_size = 2
    /\ Len(BatchCalls) = 2
    /\ BatchCalls[2].n = 1

\* A sequence as a bag: how often each value occurs in it.
BagOfSeq(s) ==
    [v \in {s[x] : x \in DOMAIN s} |-> Cardinality({x \in DOMAIN s : s[x] = v})]

\* One (name, employee count) row per generated company, in generation order.
ExpectedQ2 ==
    [j \in 1..n_companies |->
        <<genCompanies[j],
          Cardinality({x \in DOMAIN genPersons : genPersons[x].c = j})>>]

\* C3: Q2 run right after the load returns, under each variant, one
\* (company name, employee count) row for each of the n_companies generated
\* companies, the count being that company's number of generated employees,
\* so the rows are the same under Referenced, EmbeddedSingle, EmbeddedArray.
C3_Q2SameInEveryVariant ==
    pc = "q3" => BagOfSeq(q2Result) = BagOfSeq(ExpectedQ2)

\* The same statement for Referenced and EmbeddedArray alone.
C3_Q2Model1Model3 ==
    pc = "q3" /\ op # 2 => q2Result = ExpectedQ2

\* One (full name, owning company's name) row per generated person.
ExpectedQ1 ==
    [x \in DOMAIN genPersons |->
        <<genPersons[x].fullName, genCompanies[genPersons[x].c]>>]

\* C4: Q1 run right after a completed load returns exactly n_people rows, one
\* (full name, owning company's name) row per generated person: none missing,
\* none twice, and no row for a company document.
C4_Q1OneRowPerPerson ==
    pc = "q2" =>
        /\ Len(q1Result) = n_people
        /\ BagOfSeq(q1Result) = BagOfSeq(ExpectedQ1)

\* Q1 has run on an EmbeddedArray store in which one company has an employee
\* and the other has none, and on a Referenced store with two companies.
C4_Witness ==
    /\ pc = "q2" /\ op = 3
    /\ n_people = 1 /\ n_companies = 2
    /\ Len(collection) = 2
    /\ Len(q1Result) = 1

\* A collection with every person's age blanked: what is left is every field
\* of every company and every field but age of every person.
AgeBlanked(o, coll) ==
    IF o = 3
      THEN [x \in DOMAIN coll |->
              [coll[x] EXCEPT !.employees =
                  [y \in DOMAIN @ |-> [@[y] EXCEPT !.age = 0]]]]
      ELSE [x \in DOMAIN coll |->
              IF Has(coll[x], "age") THEN [coll[x] EXCEPT !.age = 0] ELSE coll[x]]

\* C5: after Q3 every person born strictly before 1988-01-01 has age 30,
\* every person born on or after that day has the age derived at generation,
\* nothing but ages has changed, and applying Q3 again changes nothing; this
\* holds in EmbeddedArray too, where Q3 writes whole employee lists back.
C5_Q3SetsAgeOnly ==
    pc = "q4" =>
        LET P == StoredPersons(op, collection) IN
        /\ Len(P) = Len(genPersons)
        /\ \A x \in DOMAIN P :
              /\ DateLT(P[x].dateOfBirth, <<1988, 1, 1>>) => P[x].age = 30
              /\ ~DateLT(P[x].dateOfBirth, <<1988, 1, 1>>) => P[x].age = genPersons[x].age
        /\ AgeBlanked(op, collection) = AgeBlanked(op, loaded)
        /\ Q3Update(op, collection) = collection

\* Q3 has run on an EmbeddedArray company that embeds a person born on
\* 1987-12-31 and a person born on 1988-01-01.
C5_Witness ==
    /\ pc = "q4" /\ op = 3
    /\ Len(collection) = 1
    /\ Len(collection[1].employees) = 2
    /\ collection[1].employees[1].dateOfBirth = <<1987, 12, 31>>
    /\ collection[1].employees[1].age = 30
    /\ collection[1].employees[2].dateOfBirth = <<1988, 1, 1>>
    /\ collection[1].employees[2].age # 30

\* The company names a collection holds, in store order: of the company
\* documents (Referenced, EmbeddedArray), of every person's embedded company
\* (EmbeddedSingle).
CompanyNamesIn(o, coll) ==
    CASE o = 1 -> LET cs == SelectSeq(coll, LAMBDA d : d.type = "company")
                  IN [x \in DOMAIN cs |-> cs[x].name]
      [] o = 2 -> [x \in DOMAIN coll |-> coll[x].company.name]
      [] OTHER -> [x \in DOMAIN coll |-> coll[x].name]

\* The same names as the run generated them.
GeneratedNames ==
    IF op = 2 THEN [x \in DOMAIN genPersons |-> genCompanies[genPersons[x].c]]
    ELSE genCompanies

\* A collection with every company name blanked.
NameBlanked(o, coll) ==
    CASE o = 1 -> [x \in DOMAIN coll |->
                     IF coll[x].type = "company" THEN [coll[x] EXCEPT !.name = ""]
                     ELSE coll[x]]
      [] o = 2 -> [x \in DOMAIN coll |-> [coll[x] EXCEPT !.company.name = ""]]
      [] OTHER -> [x \in DOMAIN coll |-> [coll[x] EXCEPT !.name = ""]]

\* C6: each application of Q4 appends " Company" exactly once to every company
\* name in the store and changes nothing else; the one application of a run
\* leaves every name as generated plus " Company", and a second application
\* on that store leaves it as generated plus " Company Company".
C6_Q4AppendsOnce ==
    [][pc = "q4" /\ pc' = "menu" =>
        /\ CompanyNamesIn(op, collection') =
              [x \in DOMAIN CompanyNamesIn(op, collection) |->
                  CompanyNamesIn(op, collection)[x] \o " Company"]
        /\ CompanyNamesIn(op, collection') =
              [x \in DOMAIN GeneratedNames |-> GeneratedNames[x] \o " Company"]
        /\ NameBlanked(op, collection') = NameBlanked(op, collection)
        /\ CompanyNamesIn(op, Q4Update(op, collection')) =
              [x \in DOMAIN GeneratedNames |-> GeneratedNames[x] \o " Company Company"]
        /\ NameBlanked(op, Q4Update(op, collection')) = NameBlanked(op, collection)
    ]_vars

\* Q4 has run on an EmbeddedSingle store whose two persons embed the same
\* company: both copies carry the suffix once.
C6_Witness ==
    /\ pc = "menu" /\ run >= 1 /\ op = 2
    /\ Len(collection) = 2
    /\ genCompanies = <<"Acme">>
    /\ collection[1].company.name = "Acme Company"
    /\ collection[2].company.name = "Acme Company"

\* The company document a person's company_id names: in the collection, of
\* type company, given its identifier in this run.
ReferenceResolves(p) ==
    \E x \in DOMAIN collection :
        /\ collection[x]["_id"] = p.company_id
        /\ collection[x].type = "company"
        /\ collection[x]["_id"][1] = run

\* C7: in the Referenced variant every person document built or stored
\* carries the identifier of a company document inserted earlier in the same
\* run and present in the collection; all companies are inserted and their
\* identifiers captured before the first person is built.
C7_NoDanglingReference ==
    op = 1 =>
        /\ \A x \in DOMAIN buffer : ReferenceResolves(buffer[x])
        /\ \A y \in DOMAIN collection :
              collection[y].type = "person" =>
                  /\ ReferenceResolves(collection[y])
                  /\ \E x \in 1..(y - 1) :
                        collection[x]["_id"] = collection[y].company_id
        /\ genPersons # <<>> =>
              /\ Len(company_ids) = n_companies
              /\ Len(SelectSeq(collection, LAMBDA d : d.type = "company")) = n_companies

\* A Referenced load holds stored persons and a buffered person, of two
\* different companies.
C7_Witness ==
    /\ op = 1 /\ pc = "persons"
    /\ n_companies = 2
    /\ Len(buffer) = 1
    /\ Len(collection) = 4
    /\ collection[3].type = "person"
    /\ buffer[1].company_id # collection[3].company_id

LoadPhase == pc \in {"companies", "distribute", "persons"}

\* Documents built and not yet sent to the store: the Referenced company
\* list before its insert, the buffer, the EmbeddedArray company being built.
PendingDocs ==
    (IF op = 1 /\ pc = "companies" THEN Len(companies) ELSE 0)
        + Len(buffer) + Len(company)

\* C8 as stated: throughout the load phase the documents awaiting insertion
\* never exceed batch_size and every insert-many call carries at most
\* batch_size documents, the Referenced company documents included.
C8_EverythingBatched ==
    /\ LoadPhase => PendingDocs <= batch_size
    /\ \A x \in DOMAIN insertCalls : insertCalls[x].n <= batch_size

\* C8 amended: the buffer of the load loop (with the EmbeddedArray company
\* being built) never exceeds batch_size and every insert-many call of the
\* loop carries between 1 and batch_size documents; the Referenced company
\* documents are outside this bound: they are all built first and sent in one
\* insert-many call of n_companies documents.
C8_LoopBatched ==
    /\ Len(buffer) + Len(company) <= batch_size
    /\ \A x \in DOMAIN insertCalls :
          /\ insertCalls[x].kind = "batch" =>
                insertCalls[x].n >= 1 /\ insertCalls[x].n <= batch_size
          /\ insertCalls[x].kind = "companies" =>
                x = 1 /\ op = 1 /\ insertCalls[x].n = n_companies
    /\ op = 1 /\ pc = "companies" => Len(companies) <= n_companies

\* A Referenced load with batch size 1 has sent its two companies in one call
\* and then a person in a batch of one.
C8_Witness ==
    /\ op = 1 /\ batch_size = 1 /\ n_companies = 2
    /\ Len(insertCalls) = 2
    /\ insertCalls[1].kind = "companies" /\ insertCalls[1].n = 2
    /\ insertCalls[2].kind = "batch" /\ insertCalls[2].n = 1

\* C9: a call with n_companies = 0 fails with the invalid-argument condition
\* of the distribution (the division by n_companies, ZeroDivisionError here),
\* and no person is generated or inserted.
C9_ZeroCompaniesRejected ==
    run >= 1 /\ n_companies = 0 /\ pc \notin {"companies", "distribute"} =>
        /\ pc = "crashed"
        /\ error = "ZeroDivisionError"
        /\ genPersons = <<>>
        /\ collection = <<>>

IsPrefix(s, t) == Len(s) <= Len(t) /\ s = SubSeq(t, 1, Len(s))

\* C10: when the store rejects an insert-many of the load phase the run
\* aborts there: the rejected call is the last one, no query has run and
\* nothing runs afterwards, while what the earlier calls stored is still in
\* the collection, as generated.
C10_RejectedBatchAborts ==
    error = "WriteRejected" =>
        /\ pc = "crashed"
        /\ ~ENABLED Next
        /\ insertCalls # <<>>
        /\ \A x \in DOMAIN insertCalls : insertCalls[x].ok <=> x < Len(insertCalls)
        /\ q1Result = <<>> /\ q2Result = <<>>
        /\ Len(collection) = SumSeq([x \in DOMAIN insertCalls |-> insertCalls[x].stored])
        /\ DistinctIds(collection)
        /\ IsPrefix(StoredPersons(op, collection), GeneratedPersons)
        /\ IsPrefix(CompanyNamesIn(op, collection), GeneratedNames)

\* The store has rejected the second batch of an EmbeddedArray load after
\* accepting the first: the first batch's company is still stored.
C10_Witness ==
    /\ error = "WriteRejected" /\ op = 3
    /\ Len(insertCalls) = 2
    /\ insertCalls[1].ok /\ ~insertCalls[2].ok
    /\ Len(collection) = 1
    /\ Len(collection[1].employees) = 1

\* The order of the benchmark phase.
QueryOrder == <<"Q1", "Q2", "Q3", "Q4">>

QueryNames == [x \in DOMAIN queryLog |-> queryLog[x].name]

\* The run has ended on a query's store error.
QueryFailed == pc = "crashed" /\ error = "OperationFailure"

\* C11 as stated: the queries run in the order Q1, Q2, Q3, Q4 after the load
\* phase has completed, and a run in which a query failed still attempts the
\* queries after it, so it does not end before all four were started.
C11_FailureDoesNotStopQueries ==
    /\ IsPrefix(QueryNames, QueryOrder)
    /\ queryLog # <<>> => Len(StoredPersons(op, loaded)) = n_people
    /\ QueryFailed => Len(queryLog) = 4

\* C11 amended: the queries run in the order Q1, Q2, Q3, Q4 after the load
\* phase has completed; a query that fails with a store error is the last
\* one started: its exception is not caught, the run ends there and no later
\* query is attempted.  A run that returns to the menu has run all four.
C11_FixedOrderAbortOnFailure ==
    /\ IsPrefix(QueryNames, QueryOrder)
    /\ queryLog # <<>> =>
          /\ Len(StoredPersons(op, loaded)) = n_people
          /\ Len(genPersons) = n_people
          /\ \A x \in DOMAIN insertCalls : insertCalls[x].ok
    /\ \A x \in DOMAIN queryLog :
          ~queryLog[x].ok => x = Len(queryLog) /\ QueryFailed /\ ~ENABLED Next
    /\ QueryFailed => ~queryLog[Len(queryLog)].ok
    /\ pc \in {"q1", "q2", "q3", "q4"} =>
          Len(queryLog) = CASE pc = "q1" -> 0 [] pc = "q2" -> 1
                            [] pc = "q3" -> 2 [] OTHER -> 3
    /\ pc \in {"menu", "exited"} /\ run >= 1 => Len(queryLog) = 4

\* Q2 has failed after Q1 succeeded on a loaded store: the run has ended with
\* Q3 and Q4 never started.
C11_Witness ==
    /\ QueryFailed
    /\ Len(queryLog) = 2
    /\ queryLog[1].ok /\ ~queryLog[2].ok
    /\ queryLog[2].name = "Q2"
    /\ n_people = 2 /\ Len(q1Result) = 2

IdsOf(coll) == [x \in DOMAIN coll |-> coll[x]["_id"]]

\* C12: over any sequence of runs started from the menu, every document in
\* the collection was inserted by the current run (the run dropped the
\* collection before its first insert); when a run's load phase completes the
\* collection holds exactly the documents that run generated; within a run
\* no document is deleted, and Q1-Q4 leave the number of documents as it is.
C12_RunOwnsCollection ==
    [][
        /\ \A x \in DOMAIN collection' : collection'[x]["_id"][1] = run'
        /\ pc = "menu" /\ pc' # "exited" => collection' = <<>> /\ insertCalls' = <<>>
        /\ pc # "menu" => /\ run' = run
                          /\ IsPrefix(IdsOf(collection), IdsOf(collection'))
        /\ pc \in {"q1", "q2", "q3", "q4"} => IdsOf(collection') = IdsOf(collection)
        /\ pc' = "q1" =>
              ( /\ Len(collection) = QueuedDocs + (IF op = 1 THEN n_companies ELSE 0)
                /\ StoredPersons(op, collection) = GeneratedPersons
                /\ CompanyNamesIn(op, collection) = GeneratedNames
                /\ DistinctIds(collection) )'
    ]_vars

\* A second run, of another variant than the first could have left, has
\* completed its load: the collection holds its two documents.
C12_Witness ==
    /\ run = 2 /\ pc = "q1" /\ op = 2
    /\ n_people = 2
    /\ Len(collection) = 2
    /\ IdsOf(collection) = << <<2, 1>>, <<2, 2>> >>

\* The age of a person born on dob when year, month and day are all read
\* from the one clock value Clock[t].
AgeAt(t, dob) == Age(t, t, t, dob)

\* C13: every generated and every stored person's age is the age computed
\* from year, month and day of one single generation time, whatever the clock
\* does between the reads, and until Q3 nothing rewrites it.
C13_AgeFromOneInstant ==
    /\ \A x \in DOMAIN genPersons :
          \E t \in DOMAIN Clock :
              genPersons[x].age = AgeAt(t, genPersons[x].dateOfBirth)
    /\ pc \in {"q1", "q2", "q3"} =>
          LET P == StoredPersons(op, collection) IN
          \A x \in DOMAIN P :
              \E t \in DOMAIN Clock : P[x].age = AgeAt(t, P[x].dateOfBirth)
====
